---- MODULE Spec2Model ----
(***************************************************************************)
(* Model of the request handlers of server/server.py (ellie): the routes    *)
(* that take a project id, a revision number or a runtime version as text,  *)
(* the upload authorization gate, and the revision store / object storage   *)
(* they talk to.  Texts are sequences of one-character strings, an          *)
(* Optional value is a sequence of length 0 (None) or 1.                    *)
(***************************************************************************)
EXTENDS Integers, Sequences, FiniteSets, TLC

VARIABLES revisions, blobs, clients, last

vars == <<revisions, blobs, clients, last>>

\* ------------------------------------------------------------------ bounds
MaxIdLen == 2
MaxNumLen == 2
MaxVerLen == 5
MaxSeq == 2
NumClients == 2

Clients == 1..NumClients

\* ------------------------------------------------------------- Optional
None == <<>>
Some(v) == <<v>>
IsNone(o) == o = <<>>

SeqsUpTo(S, n) == UNION {[1..k -> S] : k \in 0..n}

\* ------------------------------------------------------- request inputs
IdChars == {"a", "!"}
NumChars == {"-", "+", "0", "1", "2", "3", "x"}
VerChars == {"0", "1", "."}

IdTexts == SeqsUpTo(IdChars, MaxIdLen)
NumTexts == SeqsUpTo(NumChars, MaxNumLen)
VerTexts == SeqsUpTo(VerChars, MaxVerLen)

\* ------------------------------------------------------------ int(string)
Digits == {"0", "1", "2", "3", "4", "5", "6", "7", "8", "9"}

DigitVal(c) ==
    CASE c = "0" -> 0 [] c = "1" -> 1 [] c = "2" -> 2 [] c = "3" -> 3
      [] c = "4" -> 4 [] c = "5" -> 5 [] c = "6" -> 6 [] c = "7" -> 7
      [] c = "8" -> 8 [] c = "9" -> 9

DigitChar(d) ==
    CASE d = 0 -> "0" [] d = 1 -> "1" [] d = 2 -> "2" [] d = 3 -> "3"
      [] d = 4 -> "4" [] d = 5 -> "5" [] d = 6 -> "6" [] d = 7 -> "7"
      [] d = 8 -> "8" [] d = 9 -> "9"

IsDigits(s) == Len(s) > 0 /\ \A i \in 1..Len(s) : s[i] \in Digits

RECURSIVE Decimal(_)
Decimal(s) ==
    IF s = <<>> THEN 0
    ELSE Decimal(SubSeq(s, 1, Len(s) - 1)) * 10 + DigitVal(s[Len(s)])

RECURSIVE NatToText(_)
NatToText(n) ==
    IF n < 10 THEN <<DigitChar(n)>>
    ELSE Append(NatToText(n \div 10), DigitChar(n % 10))

\* str(int)
IntToText(n) == IF n < 0 THEN <<"-">> \o NatToText(0 - n) ELSE NatToText(n)

\* parse_int: int(string), None on any exception (a missing parameter, None,
\* raises TypeError inside int and is caught as well).
parse_int(string) ==
    IF IsNone(string) THEN None
    ELSE LET t == string[1]
             signed == Len(t) > 0 /\ t[1] \in {"-", "+"}
             body == IF signed THEN SubSeq(t, 2, Len(t)) ELSE t
             sign == IF signed /\ t[1] = "-" THEN 0 - 1 ELSE 1
         IN IF IsDigits(body) THEN Some(sign * Decimal(body)) ELSE None

\* ------------------------------------------------- data.project_id etc.
LegacyLen == 1
CurrentLen == 2
TokenChars == {"a"}

IsToken(t, n) == Len(t) = n /\ \A i \in 1..Len(t) : t[i] \in TokenChars

\* ProjectId.from_string: legacy pattern first, current pattern second.
ProjectId_from_string(text) ==
    IF IsToken(text, LegacyLen) THEN Some([token |-> text, is_old |-> TRUE])
    ELSE IF IsToken(text, CurrentLen) THEN Some([token |-> text, is_old |-> FALSE])
    ELSE None

\* str(ProjectId): an id renders in the shape it was parsed from.
ProjectId_str(id) == id.token

RevisionId(project_id, revision_number) ==
    [project_id |-> project_id, revision_number |-> revision_number]

\* Version.from_string: exactly three dot-separated numeric components.
Version_from_string(text) ==
    LET dots == {i \in 1..Len(text) : text[i] = "."}
    IN IF Cardinality(dots) # 2 THEN None
       ELSE LET i == CHOOSE d \in dots : \A e \in dots : d <= e
                j == CHOOSE d \in dots : \A e \in dots : e <= d
                x == SubSeq(text, 1, i - 1)
                y == SubSeq(text, i + 1, j - 1)
                z == SubSeq(text, j + 1, Len(text))
            IN IF IsDigits(x) /\ IsDigits(y) /\ IsDigits(z)
               THEN Some(<<Decimal(x), Decimal(y), Decimal(z)>>)
               ELSE None

Projects == {ProjectId_from_string(t)[1] :
                t \in {u \in IdTexts : ~IsNone(ProjectId_from_string(u))}}

\* --------------------------------------------------------- repository
Kinds == {"revision", "result"}

RevisionIds == {RevisionId(p, n) : p \in Projects, n \in 0..MaxSeq}

Keys == [revision_id : RevisionIds, kind : Kinds]

\* Highest confirmed sequence number of a project, -1 when it has none.
sequence(project_id) ==
    LET ns == {r.revision_number : r \in {q \in revisions : q.project_id = project_id}}
    IN IF ns = {} THEN 0 - 1 ELSE CHOOSE n \in ns : \A m \in ns : m <= n

revision_exists(revision_id) == revision_id \in revisions

get_revision(revision_id) ==
    IF revision_id \in revisions
    THEN Some([title |-> "title", description |-> "description"])
    ELSE None

get_revision_upload_signature(revision_id) ==
    [key |-> [revision_id |-> revision_id, kind |-> "revision"]]

get_result_upload_signature(revision_id) ==
    [key |-> [revision_id |-> revision_id, kind |-> "result"]]

Users == {"u"}
PackageProjects == {"p", "q"}
Queries == {<<"p">>, <<"z">>}

PackageCatalog ==
    {[name |-> <<"u", "p">>, version |-> <<1, 0, 0>>, elm |-> <<0, 0, 0>>],
     [name |-> <<"u", "p">>, version |-> <<1, 0, 1>>, elm |-> <<0, 0, 0>>],
     [name |-> <<"u", "q">>, version |-> <<1, 0, 0>>, elm |-> <<0, 1, 0>>]}

get_versions_for_elm_version_and_package(elm_version, package_name) ==
    {p.version : p \in {q \in PackageCatalog :
                           q.name = package_name /\ Some(q.elm) = elm_version}}

repository_search(elm_version, query) ==
    {p \in PackageCatalog : p.elm = elm_version /\ <<p.name[2]>> = query}

\* ----------------------------------------------------------- responses
Call(op, arg) == [op |-> op, arg |-> arg]

Response(status, message, detail, body, location, calls) ==
    [status |-> status, message |-> message, detail |-> detail,
     body |-> body, location |-> location, calls |-> calls]

\* raise ApiError(status, message), rendered by handle_error
ApiError(status, message, detail, calls) ==
    Response(status, message, detail, None, None, calls)

\* jsonify(...) / render_template(...)
Ok(body, calls) == Response(200, "", None, Some(body), None, calls)

\* redirect(url, code)
Redirect(code, url, calls) == Response(code, "", None, None, Some(url), calls)

\* an uncaught exception: handle_default_error answers 500
ServerError(calls) == Response(500, "There was a problem with the server", None, None, None, calls)

\* no route matches the path (a converter's regex or ValidationError)
NotFound == Response(404, "Not Found", None, None, None, <<>>)

RevisionId_str(revision_id) ==
    ProjectId_str(revision_id.project_id) \o <<"/">> \o IntToText(revision_id.revision_number)

\* ------------------------------------------------------------ handlers
\* line 152: the lower bound of an acceptable revisionNumber
below_minimum_accepting_zero(revision_number) == revision_number < 0

below_minimum_accepting_all(revision_number) == FALSE

below_minimum(revision_number) == revision_number < 1

\* line 155: the revision whose existence gates the request
predecessor_same_number(revision_number) == revision_number

predecessor(revision_number) == revision_number - 1

\* GET /api/upload/existing?projectId=..&revisionNumber=..
get_existing_upload_urls(project_id_string, revision_number_string) ==
    IF IsNone(project_id_string)
    THEN ApiError(400, "Required parameter 'projectId' was not provided", None, <<>>)
    ELSE LET project_id == ProjectId_from_string(project_id_string[1]) IN
    IF IsNone(project_id)
    THEN ApiError(400, "Unparseable 'projectId' parameter", None, <<>>)
    ELSE IF IsNone(revision_number_string)
    THEN ApiError(400, "Required parameter 'revisionNumber' was not provided", None, <<>>)
    ELSE LET revision_number == parse_int(revision_number_string) IN
    IF IsNone(revision_number)
    THEN ApiError(400, "Unparseable 'revisionNumber' must be an integer", None, <<>>)
    ELSE IF below_minimum(revision_number[1])
    THEN ApiError(400, "Parameter 'revisionNumber' must be positive", None, <<>>)
    ELSE LET expected_revision_id ==
                 RevisionId(project_id[1], predecessor(revision_number[1]))
             probe == <<Call("revision_exists", expected_revision_id)>>
         IN
    IF ~revision_exists(expected_revision_id)
    THEN ApiError(400, "Revision with ID '{}' does not exist to be updated",
                  Some(RevisionId_str(expected_revision_id)), probe)
    ELSE Ok([revision |-> get_revision_upload_signature(expected_revision_id),
             result |-> get_result_upload_signature(expected_revision_id)],
            probe \o <<Call("get_revision_upload_signature", expected_revision_id),
                       Call("get_result_upload_signature", expected_revision_id)>>)

\* GET /api/packages/<version:elm_version>/<user>/<project>/versions
\* VersionConverter.to_python hands Version.from_string's result, None
\* included, to the view; what the repository does with None is not fixed.
tags(elm_version_text, user, project, repository_raises) ==
    IF elm_version_text = <<>> THEN NotFound
    ELSE LET elm_version == Version_from_string(elm_version_text)
             package_name == <<user, project>>
             calls == <<Call("get_versions_for_elm_version_and_package", elm_version)>>
             versions == get_versions_for_elm_version_and_package(elm_version, package_name)
         IN IF IsNone(elm_version) /\ repository_raises THEN ServerError(calls)
            ELSE IF Cardinality(versions) = 0
            THEN ApiError(404, "Package not found", None, calls)
            ELSE Ok(versions, calls)

\* GET /api/search?query=..&elmVersion=..
search(query, elm_version) ==
    IF IsNone(query)
    THEN ApiError(400, "query field must be a string", None, <<>>)
    ELSE IF IsNone(elm_version)
    THEN ApiError(400, "elm version must be a semver string like 0.18.0", None, <<>>)
    ELSE LET parsed_elm_version == Version_from_string(elm_version[1]) IN
    IF IsNone(parsed_elm_version)
    THEN ApiError(400, "elm version must be a semver string like 0.18.0", None, <<>>)
    ELSE Ok(repository_search(parsed_elm_version[1], query[1]),
            <<Call("search", parsed_elm_version)>>)

\* url_for(endpoint, project_id=.., revision_number=..): the path segments
\* ProjectIdConverter.to_url and the int converter render.
url_for(endpoint, project_id, revision_number) ==
    [endpoint |-> endpoint,
     project_id |-> ProjectId_str(project_id),
     revision_number |-> IntToText(revision_number)]

\* GET /<project_id:project_id>/<int(min=0):revision_number>
existing(project_id_text, revision_number_text) ==
    IF project_id_text = <<>> \/ ~IsDigits(revision_number_text) THEN NotFound
    ELSE LET project_id == ProjectId_from_string(project_id_text)
             revision_number == Decimal(revision_number_text)
         IN
    IF IsNone(project_id) THEN ServerError(<<>>)
    ELSE IF project_id[1].is_old
    THEN Redirect(301, url_for("existing", project_id[1], revision_number), <<>>)
    ELSE LET revision_id == RevisionId(project_id[1], revision_number)
             calls == <<Call("get_revision", revision_id)>>
         IN IF IsNone(get_revision(revision_id))
            THEN Redirect(303, [endpoint |-> "new"], calls)
            ELSE Ok(get_revision(revision_id)[1],
                    Append(calls, Call("get_accepted_terms_version", None)))

\* GET /embed/<project_id:project_id>/<int(min=0):revision_number>
embed(project_id_text, revision_number_text) ==
    IF project_id_text = <<>> \/ ~IsDigits(revision_number_text) THEN NotFound
    ELSE LET project_id == ProjectId_from_string(project_id_text)
             revision_number == Decimal(revision_number_text)
         IN
    IF IsNone(project_id) THEN ServerError(<<>>)
    ELSE IF project_id[1].is_old
    THEN Redirect(301, url_for("embed", project_id[1], revision_number), <<>>)
    ELSE LET revision_id == RevisionId(project_id[1], revision_number)
         IN Ok(get_revision(revision_id), <<Call("get_revision", revision_id)>>)

\* GET /oembed?url=..  The url is given as urlparse sees it: whether its
\* hostname contains ellie-app.com, and its path split on "/".
oembed(hostname_ok, split) ==
    IF ~hostname_ok \/ split = <<<<>>>> THEN ApiError(404, "revision not found", None, <<>>)
    ELSE IF Len(split) # 3 THEN ApiError(404, "revision not found", None, <<>>)
    ELSE LET project_id == ProjectId_from_string(split[2]) IN
    IF IsNone(project_id) THEN ApiError(404, "revision not found", None, <<>>)
    ELSE LET revision_number == parse_int(Some(split[3])) IN
    IF IsNone(revision_number) THEN ApiError(404, "revision not found", None, <<>>)
    ELSE LET revision_id == RevisionId(project_id[1], revision_number[1])
             calls == <<Call("get_revision", revision_id)>>
         IN IF IsNone(get_revision(revision_id))
            THEN ApiError(404, "revision not found", None, calls)
            ELSE Ok(get_revision(revision_id)[1], calls)

\* --------------------------------------------------------------- state
\* revisions : the RevisionIds the revision store holds (confirmed)
\* blobs     : object storage, key -> who wrote the blob last (0: the
\*             publisher of a revision persisted before the run)
\* clients   : each publishing client's progress and credentials
\* last      : the request handled last, with its response
NoRequest == [route |-> "none"]

IdleClient == [pc |-> "idle", want |-> None, creds |-> None, sent |-> {}]

Optional(S) == {None} \cup {Some(x) : x \in S}

Init ==
    /\ \E count \in [Projects -> 0..MaxSeq] :
          revisions = {r \in RevisionIds : r.revision_number < count[r.project_id]}
    /\ blobs = [k \in Keys |-> IF k.revision_id \in revisions THEN Some(0) ELSE None]
    /\ clients = [c \in Clients |-> IdleClient]
    /\ last = NoRequest

Handled(route, args, resp) == [route |-> route, args |-> args, resp |-> resp]

\* ------------------------------------------------------------- actions
GetExistingUploadUrlsPersisting ==
    /\ last = NoRequest
    /\ \E project_id_string \in Optional(IdTexts), revision_number_string \in Optional(NumTexts) :
       LET resp == get_existing_upload_urls(project_id_string, revision_number_string) IN
       /\ last' = Handled("get_existing_upload_urls",
                          [projectId |-> project_id_string,
                           revisionNumber |-> revision_number_string], resp)
       /\ revisions' = IF resp.status = 200
                       THEN revisions \cup
                            {RevisionId(ProjectId_from_string(project_id_string[1])[1],
                                        parse_int(revision_number_string)[1])}
                       ELSE revisions
       /\ UNCHANGED <<blobs, clients>>

GetExistingUploadUrls ==
    /\ last = NoRequest
    /\ \E project_id_string \in Optional(IdTexts), revision_number_string \in Optional(NumTexts) :
       /\ last' = Handled("get_existing_upload_urls",
                          [projectId |-> project_id_string,
                           revisionNumber |-> revision_number_string],
                          get_existing_upload_urls(project_id_string, revision_number_string))
       /\ UNCHANGED <<revisions, blobs, clients>>

Tags ==
    /\ last = NoRequest
    /\ \E elm_version \in VerTexts, user \in Users, project \in PackageProjects,
       repository_raises \in BOOLEAN :
       /\ last' = Handled("tags",
                          [elm_version |-> elm_version, user |-> user, project |-> project],
                          tags(elm_version, user, project, repository_raises))
       /\ UNCHANGED <<revisions, blobs, clients>>

Search ==
    /\ last = NoRequest
    /\ \E query \in Optional(Queries), elm_version \in Optional(VerTexts) :
       /\ last' = Handled("search", [query |-> query, elmVersion |-> elm_version],
                          search(query, elm_version))
       /\ UNCHANGED <<revisions, blobs, clients>>

Existing ==
    /\ last = NoRequest
    /\ \E project_id \in IdTexts, revision_number \in NumTexts :
       /\ last' = Handled("existing",
                          [project_id |-> project_id, revision_number |-> revision_number],
                          existing(project_id, revision_number))
       /\ UNCHANGED <<revisions, blobs, clients>>

Embed ==
    /\ last = NoRequest
    /\ \E project_id \in IdTexts, revision_number \in NumTexts :
       /\ last' = Handled("embed",
                          [project_id |-> project_id, revision_number |-> revision_number],
                          embed(project_id, revision_number))
       /\ UNCHANGED <<revisions, blobs, clients>>

\* the paths "/", "/<id>", "/<id>/<n>" and "/<id>/<n>/" after split("/")
Splits(project_id, revision_number) ==
    {<<<<>>>>, <<<<>>, project_id>>, <<<<>>, project_id, revision_number>>,
     <<<<>>, project_id, revision_number, <<>>>>}

Oembed ==
    /\ last = NoRequest
    /\ \E hostname_ok \in BOOLEAN, project_id \in IdTexts, revision_number \in NumTexts :
       \E split \in Splits(project_id, revision_number) :
          /\ last' = Handled("oembed", [hostname_ok |-> hostname_ok, split |-> split],
                             oembed(hostname_ok, split))
          /\ UNCHANGED <<revisions, blobs, clients>>

\* The response has gone out; the next request is handled.
Complete ==
    /\ last # NoRequest
    /\ last' = NoRequest
    /\ UNCHANGED <<revisions, blobs, clients>>

\* A client takes the credentials of a successful authorization; the
\* revision it sets out to publish is the one it asked for.
Receive(c) ==
    /\ last.route = "get_existing_upload_urls"
    /\ last.resp.status = 200
    /\ clients[c].pc = "idle"
    /\ clients' = [clients EXCEPT ![c] =
                      [pc |-> "authorized",
                       want |-> Some(RevisionId(ProjectId_from_string(last.args.projectId[1])[1],
                                                parse_int(last.args.revisionNumber)[1])),
                       creds |-> last.resp.body,
                       sent |-> {}]]
    /\ last' = NoRequest
    /\ UNCHANGED <<revisions, blobs>>

\* The client writes one artifact straight to object storage with the
\* credential for it; the write lands on the credential's key.
Upload(c, kind) ==
    /\ clients[c].pc = "authorized"
    /\ kind \notin clients[c].sent
    /\ blobs' = [blobs EXCEPT ![clients[c].creds[1][kind].key] = Some(c)]
    /\ clients' = [clients EXCEPT ![c].sent = @ \cup {kind}]
    /\ UNCHANGED <<revisions, last>>

\* RevisionStore.confirm: atomic; the revision must be the project's next.
Confirm(c) ==
    /\ clients[c].pc = "authorized"
    /\ clients[c].sent = Kinds
    /\ LET revision_id == clients[c].want[1] IN
       /\ revision_id.revision_number <= MaxSeq
       /\ IF revision_id.revision_number = sequence(revision_id.project_id) + 1
          THEN /\ revisions' = revisions \cup {revision_id}
               /\ clients' = [clients EXCEPT ![c].pc = "confirmed"]
          ELSE /\ revisions' = revisions
               /\ clients' = [clients EXCEPT ![c].pc = "SequenceViolation"]
    /\ UNCHANGED <<blobs, last>>

Next ==
    \/ GetExistingUploadUrls
    \/ Tags
    \/ Search
    \/ Existing
    \/ Embed
    \/ Oembed
    \/ Complete

Spec == Init /\ [][Next]_vars

NextPublish ==
    \/ GetExistingUploadUrls
    \/ \E c \in Clients : Receive(c)
    \/ \E c \in Clients, kind \in Kinds : Upload(c, kind)
    \/ \E c \in Clients : Confirm(c)
    \/ Complete

SpecPublish == Init /\ [][NextPublish]_vars

\* -------------------------------------------------------------- claims
IsUpload == last.route = "get_existing_upload_urls"

\* The project and the number an upload request names, once parsed.
RequestedProject ==
    IF IsNone(last.args.projectId) THEN None
    ELSE ProjectId_from_string(last.args.projectId[1])

RequestedNumber == parse_int(last.args.revisionNumber)

IsAuthorize == IsUpload /\ ~IsNone(RequestedProject)

MustBePositive == "Parameter 'revisionNumber' must be positive"

PredecessorMissing == "Revision with ID '{}' does not exist to be updated"

InvalidArgument ==
    {"Required parameter 'revisionNumber' was not provided",
     "Unparseable 'revisionNumber' must be an integer",
     MustBePositive}

C2_AuthorizedIffPredecessorExists ==
    (IsAuthorize /\ ~IsNone(RequestedNumber) /\ RequestedNumber[1] > 0)
        => (last.resp.status = 200
              <=> RevisionId(RequestedProject[1], RequestedNumber[1] - 1) \in revisions)

C2_ThirdRevisionAuthorized ==
    /\ IsAuthorize
    /\ RequestedNumber = Some(2)
    /\ sequence(RequestedProject[1]) = 1
    /\ last.resp.status = 200

\* C3: the two credentials of a successful authorization for (P, N) are for
\* the source key and the result key of revision N, and differ.
C3_CredentialsForRequestedRevision ==
    (IsAuthorize /\ last.resp.status = 200)
        => LET requested == RevisionId(RequestedProject[1], RequestedNumber[1])
               body == last.resp.body[1]
           IN /\ body.revision.key = [revision_id |-> requested, kind |-> "revision"]
              /\ body.result.key = [revision_id |-> requested, kind |-> "result"]
              /\ body.revision # body.result

\* C4: a malformed, missing or negative number is answered with an
\* invalid-argument error and never the missing-predecessor error; a missing
\* predecessor is answered with the missing-predecessor error and never an
\* invalid-argument one; the two are told apart by the error returned.
C4_ErrorsToldApart ==
    /\ PredecessorMissing \notin InvalidArgument
    /\ IsUpload =>
         (last.resp.message = PredecessorMissing
            <=> /\ IsAuthorize
                /\ ~IsNone(RequestedNumber)
                /\ RequestedNumber[1] >= 1
                /\ RevisionId(RequestedProject[1], RequestedNumber[1] - 1) \notin revisions)
    /\ (IsAuthorize /\ (IsNone(RequestedNumber) \/ RequestedNumber[1] < 0))
         => (last.resp.status = 400 /\ last.resp.message \in InvalidArgument)

C4_NegativeRequested ==
    /\ IsAuthorize
    /\ ~IsNone(RequestedNumber)
    /\ RequestedNumber[1] < 0
    /\ last.resp.message = MustBePositive

\* C5: of two clients authorized for the same revision, at most one ends
\* confirmed, and they never both write that revision's artifacts.
C5_OneWriterPerRevision ==
    \A c1, c2 \in Clients :
       (c1 # c2 /\ ~IsNone(clients[c1].want) /\ clients[c1].want = clients[c2].want)
           => /\ ~(clients[c1].pc = "confirmed" /\ clients[c2].pc = "confirmed")
              /\ clients[c1].sent \cap clients[c2].sent = {}

\* C6: each project's revisions stay a prefix 0..k-1 of the naturals, and
\* the artifacts of an existing revision are never written again.
C6_AppendOnly ==
    [][/\ \A r \in revisions' :
             \A n \in 0..r.revision_number : RevisionId(r.project_id, n) \in revisions'
       /\ \A k \in Keys : k.revision_id \in revisions => blobs'[k] = blobs[k]]_vars

\* C7: handling an authorization request, granted or refused, leaves the
\* revision store and the stored artifacts as they were.
C7_AuthorizationPersistsNothing ==
    [][(last = NoRequest /\ last'.route = "get_existing_upload_urls")
          => (revisions' = revisions /\ blobs' = blobs)]_vars

C7_AuthorizationGranted ==
    /\ IsAuthorize
    /\ last.resp.status = 200
    /\ revisions # {}

ClientError(resp) == resp.status >= 400 /\ resp.status <= 499

\* C8: when the project id or version text of a request does not parse, the
\* response is a client error and the repository is not called.
C8_UnparsedIsClientError ==
    /\ (last.route = "tags" /\ IsNone(Version_from_string(last.args.elm_version)))
          => (ClientError(last.resp) /\ last.resp.calls = <<>>)
    /\ (last.route \in {"existing", "embed"}
          /\ IsNone(ProjectId_from_string(last.args.project_id)))
          => (ClientError(last.resp) /\ last.resp.calls = <<>>)
    /\ (last.route = "search" /\ ~IsNone(last.args.elmVersion)
          /\ IsNone(Version_from_string(last.args.elmVersion[1])))
          => (ClientError(last.resp) /\ last.resp.calls = <<>>)
    /\ (IsUpload /\ IsNone(RequestedProject))
          => (ClientError(last.resp) /\ last.resp.calls = <<>>)
    /\ (last.route = "oembed" /\ Len(last.args.split) = 3
          /\ IsNone(ProjectId_from_string(last.args.split[2])))
          => (ClientError(last.resp) /\ last.resp.calls = <<>>)

\* The response to the request a redirect of existing or embed points at.
Follow(location) ==
    IF location.endpoint = "existing"
    THEN existing(location.project_id, location.revision_number)
    ELSE embed(location.project_id, location.revision_number)

\* C9: the permanent redirect of existing and embed for a legacy project id
\* points at the same revision under a current-shape id, and following it
\* does not redirect permanently again.
C9_LegacyRedirectUpgrades ==
    (last.route \in {"existing", "embed"} /\ last.resp.status = 301)
        => LET location == last.resp.location[1]
               target == ProjectId_from_string(location.project_id)
           IN /\ ~IsNone(target)
              /\ ~target[1].is_old
              /\ Decimal(location.revision_number) = Decimal(last.args.revision_number)
              /\ Follow(location).status # 301

RevisionOps ==
    {"revision_exists", "get_revision", "get_revision_upload_signature",
     "get_result_upload_signature"}

\* C10: every RevisionId a handler passes to the repository has a sequence
\* number >= 0.
C10_SequenceNumbersNonNegative ==
    last # NoRequest =>
        \A i \in 1..Len(last.resp.calls) :
           last.resp.calls[i].op \in RevisionOps
               => last.resp.calls[i].arg.revision_number >= 0

====
